---- MODULE Spec2Model ----
(***************************************************************************)
(* Model of backend/database/reset_db.py: the database reset orchestrator  *)
(* (main), Schema Teardown (drop_all_tables) and the Fixture Provisioner   *)
(* (create_test_data).                                                     *)
(*                                                                         *)
(* The persistent store is reached through DataAPIClient and Database      *)
(* (src.client, src.models), whose code is not part of the sources; their  *)
(* operations are modelled from the specification: a lookup returns the    *)
(* matching rows in insertion order, an insert appends one row, and any    *)
(* call may raise.  run_migrations.py and seed_data.py are external        *)
(* processes of which only the exit status is consumed.                    *)
(*                                                                         *)
(* Console output is not modelled.  The Pydantic models UserCreate,        *)
(* AccountCreate and PositionCreate are built from literals that satisfy   *)
(* their constraints, so model_dump() hands the literals on unchanged.     *)
(***************************************************************************)
EXTENDS Integers, Sequences, FiniteSets, TLC

VARIABLES
    args,        \* parsed command line: [skip_drop, with_test_data]
    pc,          \* position of main()
    exit_code,   \* <<>> while the process runs, <<c>> once it has exited with c
    store,       \* the persistent store: existing tables, function, rows
    next_id,     \* next identifier the store generates for an account row
    drop_i,      \* loop index of drop_all_tables over tables_to_drop
    drop_errors, \* objects whose drop raised (and was caught) in this run
    result,      \* returncode of the last subprocess.run, <<>> before any
    verify_i,    \* loop index of the final verification over tables
    report,      \* the (table, count) lines the verification has printed
    log,         \* operations issued so far, in order (history)
    f,           \* locals of create_test_data, per writer
    invocations, \* number of invocations of create_test_data so far (history)
    snap,        \* rows of the test identity when the current invocation began
    prev_returned, \* the invocation before the current one returned normally
    fresh,       \* the run started from an environment without rows (history)
    sup,         \* run_local.py: the supervisor and its child processes
    des          \* destroy.py: the script, the answer and what it has destroyed

vars == <<args, pc, exit_code, store, next_id, drop_i, drop_errors, result,
          verify_i, report, log, f, invocations, snap, prev_returned, fresh,
          sup, des>>

\* reset_db.py, run_local.py and destroy.py are separate programs.
resetVars == <<args, pc, exit_code, store, next_id, drop_i, drop_errors, result,
               verify_i, report, log, f, invocations, snap, prev_returned, fresh>>

others == <<sup, des>>

mainVars == <<args, pc, exit_code, drop_i, drop_errors, result, verify_i,
              report, fresh, others>>

-----------------------------------------------------------------------------
(* Bounds of the model *)

MaxInitAccounts == 2
MaxInvocations == 2

-----------------------------------------------------------------------------
(* Literals of the program *)

TestUser == "test_user_001"

OtherUser == "other_user"

Writers == {"main", "second"}

\* Mutant: the parent tables are dropped before their dependants.
tables_to_drop_parents_first ==
    <<"users", "accounts", "positions", "instruments", "jobs">>

tables_to_drop == <<"positions", "accounts", "jobs", "instruments", "users">>

trigger_function == "update_updated_at_column"

accounts == <<"401(k)", "Roth IRA", "Taxable Brokerage">>

positions ==
    << [symbol |-> "SPY", quantity |-> 100],
       [symbol |-> "QQQ", quantity |-> 50],
       [symbol |-> "BND", quantity |-> 200],
       [symbol |-> "VEA", quantity |-> 150],
       [symbol |-> "GLD", quantity |-> 25] >>

tables == <<"users", "instruments", "accounts", "positions", "jobs">>

AllTables == {"users", "instruments", "accounts", "positions", "jobs"}

Range(s) == {s[k] : k \in 1..Len(s)}

-----------------------------------------------------------------------------
(* The store: Database / DataAPIClient *)

EmptyRows == [users |-> <<>>, accounts |-> <<>>, positions |-> <<>>,
              instruments |-> <<>>, jobs |-> <<>>]

find_by_clerk_id(s, clerk_user_id) ==
    SelectSeq(s.rows.users, LAMBDA u : u.clerk_user_id = clerk_user_id)

find_by_user(s, clerk_user_id) ==
    SelectSeq(s.rows.accounts, LAMBDA a : a.clerk_user_id = clerk_user_id)

find_by_account(s, account_id) ==
    SelectSeq(s.rows.positions, LAMBDA p : p.account_id = account_id)

InsertRow(s, table, row) ==
    [s EXCEPT !.rows[table] = Append(@, row)]

create_user(s, clerk_user_id) ==
    InsertRow(s, "users", [clerk_user_id |-> clerk_user_id])

create_account(s, id, clerk_user_id, account_name) ==
    InsertRow(s, "accounts", [id |-> id, clerk_user_id |-> clerk_user_id,
                              account_name |-> account_name])

add_position(s, account_id, symbol, quantity) ==
    InsertRow(s, "positions", [account_id |-> account_id, symbol |-> symbol,
                               quantity |-> quantity])

\* DROP TABLE IF EXISTS t CASCADE: the table and its rows go; rows of other
\* tables stay (CASCADE removes dependent constraints, not dependent rows).
DropTable(s, table) ==
    [s EXCEPT !.tables = @ \ {table}, !.rows[table] = <<>>]

DropFunction(s) == [s EXCEPT !.fn = FALSE]

\* run_migrations.py on success: every table and the trigger function exist;
\* a table that survived the teardown keeps its rows.
Migrated(s) == [s EXCEPT !.tables = AllTables, !.fn = TRUE]

\* seed_data.py on success: the reference instruments are loaded.
Seeded(s) == [s EXCEPT !.rows.instruments = <<"instrument">>]

CountRows(s, table) == Len(s.rows[table])

-----------------------------------------------------------------------------
(* Counts the claims speak of *)

UsersOf(s) == find_by_clerk_id(s, TestUser)

AccountsOf(s) == find_by_user(s, TestUser)

AccountIdsOf(s) == {a.id : a \in Range(AccountsOf(s))}

PositionsOf(s) ==
    SelectSeq(s.rows.positions, LAMBDA p : p.account_id \in AccountIdsOf(s))

Snapshot(s) ==
    [users |-> UsersOf(s), accounts |-> AccountsOf(s), positions |-> PositionsOf(s)]

-----------------------------------------------------------------------------
(* Initial states *)

NoLocals == [fpc |-> "idle", existing |-> <<>>, user_accounts |-> <<>>,
             account_ids |-> <<>>, i |-> 0]

\* A row for an account table that some earlier run or user left behind.
AccountChoices ==
    {[clerk_user_id |-> TestUser, account_name |-> accounts[k]] : k \in 1..Len(accounts)}
        \cup {[clerk_user_id |-> OtherUser, account_name |-> "Savings"]}

UserChoices ==
    { <<>>, <<[clerk_user_id |-> TestUser]>>, <<[clerk_user_id |-> OtherUser]>>,
      <<[clerk_user_id |-> OtherUser], [clerk_user_id |-> TestUser]>> }

StoreWith(us, n, choice, held) ==
    [tables |-> AllTables,
     fn |-> TRUE,
     rows |-> [users |-> us,
               accounts |-> [k \in 1..n |->
                                [id |-> k,
                                 clerk_user_id |-> choice[k].clerk_user_id,
                                 account_name |-> choice[k].account_name]],
               positions |-> [j \in 1..Len(held) |->
                                [account_id |-> held[j], symbol |-> "VTI",
                                 quantity |-> 10]],
               instruments |-> <<>>,
               jobs |-> <<>>]]

\* The ascending sequences over 1..n: which accounts already hold a position.
Held(n) ==
    {SelectSeq([k \in 1..n |-> k], LAMBDA k : k \in S) : S \in SUBSET (1..n)}

InitStores(maxAccounts) ==
    UNION { UNION { { StoreWith(us, n, choice, held) :
                        choice \in [1..n -> AccountChoices], held \in Held(n) } :
                    n \in 0..maxAccounts } :
            us \in UserChoices }

\* The other two programs are not running.
NotRunning == [pc |-> "not_running"]

NoSchema == [tables |-> {}, fn |-> FALSE, rows |-> EmptyRows]

IsFresh(s) ==
    /\ s.rows.users = <<>>
    /\ s.rows.accounts = <<>>
    /\ s.rows.positions = <<>>

InitLocals ==
    /\ next_id = Len(store.rows.accounts) + 1
    /\ exit_code = <<>>
    /\ drop_i = 0
    /\ drop_errors = {}
    /\ result = <<>>
    /\ verify_i = 0
    /\ report = <<>>
    /\ log = <<>>
    /\ f = [w \in Writers |-> NoLocals]
    /\ invocations = 0
    /\ snap = Snapshot(store)
    /\ prev_returned = FALSE
    /\ fresh = IsFresh(store)

InitCommon ==
    /\ InitLocals
    /\ sup = NotRunning
    /\ des = NotRunning

\* reset_db.py is not running.
ResetNotRunning ==
    /\ args = [skip_drop |-> FALSE, with_test_data |-> FALSE]
    /\ pc = "not_running"
    /\ store = NoSchema
    /\ InitLocals

\* One run of main(), for every command line, from an environment without a
\* schema or from one that earlier runs have left.
Init ==
    /\ args \in [skip_drop : BOOLEAN, with_test_data : BOOLEAN]
    /\ pc = "start"
    /\ store \in InitStores(1) \cup {NoSchema}
    /\ InitCommon

\* Repeated invocations of create_test_data by one writer, from every store
\* within the bounds.
InitFixture ==
    /\ args = [skip_drop |-> TRUE, with_test_data |-> TRUE]
    /\ pc = "harness"
    /\ store \in InitStores(MaxInitAccounts)
    /\ InitCommon

-----------------------------------------------------------------------------
(* create_test_data, one action per store call *)

fixtureHist == <<invocations, snap, prev_returned>>

Issued(op, target, status) ==
    log' = Append(log, [op |-> op, target |-> target, status |-> status])

\* The call itself: fresh locals.
Call(w) ==
    /\ f' = [f EXCEPT ![w] = [NoLocals EXCEPT !.fpc = "find_user"]]
    /\ invocations' = invocations + 1
    /\ snap' = Snapshot(store)
    /\ prev_returned' = (f[w].fpc = "returned")

\* An exception nothing catches: it leaves create_test_data and, when main
\* is the caller, ends the process with a traceback and exit status 1.
Uncaught(w) ==
    /\ f' = [f EXCEPT ![w].fpc = "raised"]
    /\ IF pc = "create_test_data" /\ w = "main"
          THEN pc' = "crashed" /\ exit_code' = <<1>>
          ELSE UNCHANGED <<pc, exit_code>>
    /\ UNCHANGED <<args, store, next_id, drop_i, drop_errors, result, verify_i,
                   report, log, fresh, others, fixtureHist>>

\* Lines 112-113: positions go to the first account, when there is one.
AfterAccounts(ids) == IF ids # <<>> THEN "find_positions" ELSE "returned"

\* Mutant: the identity is never created.
FindUser_never_creates(w) ==
    /\ f[w].fpc = "find_user"
    /\ \/ /\ "users" \in store.tables
          /\ f' = [f EXCEPT ![w].existing = find_by_clerk_id(store, TestUser),
                             ![w].fpc = "find_accounts"]
          /\ UNCHANGED <<mainVars, store, next_id, log, fixtureHist>>
       \/ Uncaught(w)

\* Mutant: the identity is created whether or not it exists.
FindUser_always_creates(w) ==
    /\ f[w].fpc = "find_user"
    /\ \/ /\ "users" \in store.tables
          /\ f' = [f EXCEPT ![w].existing = find_by_clerk_id(store, TestUser),
                             ![w].fpc = "create_user"]
          /\ UNCHANGED <<mainVars, store, next_id, log, fixtureHist>>
       \/ Uncaught(w)

\* Lines 57-58: existing = find_by_clerk_id(...); if existing: ... else: ...
FindUser(w) ==
    /\ f[w].fpc = "find_user"
    /\ \/ /\ "users" \in store.tables
          /\ LET existing == find_by_clerk_id(store, TestUser)
             IN  f' = [f EXCEPT ![w].existing = existing,
                                ![w].fpc = IF existing # <<>>
                                             THEN "find_accounts"
                                             ELSE "create_user"]
          /\ UNCHANGED <<mainVars, store, next_id, log, fixtureHist>>
       \/ Uncaught(w)

\* Lines 62-68: create_user(...)
CreateUser(w) ==
    /\ f[w].fpc = "create_user"
    /\ \/ /\ "users" \in store.tables
          /\ store' = create_user(store, TestUser)
          /\ f' = [f EXCEPT ![w].fpc = "find_accounts"]
          /\ UNCHANGED <<mainVars, next_id, log, fixtureHist>>
       \/ Uncaught(w)

\* Mutant: the accounts are created whether or not the identity has any.
FindAccounts_always_creates(w) ==
    /\ f[w].fpc = "find_accounts"
    /\ \/ /\ "accounts" \in store.tables
          /\ f' = [f EXCEPT ![w] =
                     [@ EXCEPT !.user_accounts = find_by_user(store, TestUser),
                               !.fpc = "create_account",
                               !.account_ids = <<>>,
                               !.i = 1]]
          /\ UNCHANGED <<mainVars, store, next_id, log, fixtureHist>>
       \/ Uncaught(w)

\* Mutant: the accounts are created unless all of them are there.
FindAccounts_unless_complete(w) ==
    /\ f[w].fpc = "find_accounts"
    /\ \/ /\ "accounts" \in store.tables
          /\ LET user_accounts == find_by_user(store, TestUser)
                 ids == [k \in 1..Len(user_accounts) |-> user_accounts[k].id]
             IN  f' = [f EXCEPT ![w] =
                         IF Len(user_accounts) >= Len(accounts)
                           THEN [@ EXCEPT !.user_accounts = user_accounts,
                                          !.fpc = AfterAccounts(ids),
                                          !.account_ids = ids]
                           ELSE [@ EXCEPT !.user_accounts = user_accounts,
                                          !.fpc = "create_account",
                                          !.account_ids = <<>>,
                                          !.i = 1]]
          /\ UNCHANGED <<mainVars, store, next_id, log, fixtureHist>>
       \/ Uncaught(w)

\* Lines 93-99: user_accounts = find_by_user(...); if user_accounts: ...
FindAccounts(w) ==
    /\ f[w].fpc = "find_accounts"
    /\ \/ /\ "accounts" \in store.tables
          /\ LET user_accounts == find_by_user(store, TestUser)
                 ids == [k \in 1..Len(user_accounts) |-> user_accounts[k].id]
             IN  f' = [f EXCEPT ![w] =
                         IF user_accounts # <<>>
                           THEN [@ EXCEPT !.user_accounts = user_accounts,
                                          !.fpc = AfterAccounts(ids),
                                          !.account_ids = ids]
                           ELSE [@ EXCEPT !.user_accounts = user_accounts,
                                          !.fpc = "create_account",
                                          !.account_ids = <<>>,
                                          !.i = 1]]
          /\ UNCHANGED <<mainVars, store, next_id, log, fixtureHist>>
       \/ Uncaught(w)

\* Mutant: the loop over accounts leaves out the last one.
CreateAccount_stops_early(w) ==
    /\ f[w].fpc = "create_account"
    /\ \/ /\ "accounts" \in store.tables
          /\ store' = create_account(store, next_id, TestUser, accounts[f[w].i])
          /\ next_id' = next_id + 1
          /\ LET ids == Append(f[w].account_ids, next_id)
             IN  f' = [f EXCEPT ![w] =
                         IF f[w].i < Len(accounts) - 1
                           THEN [@ EXCEPT !.account_ids = ids, !.i = f[w].i + 1]
                           ELSE [@ EXCEPT !.account_ids = ids, !.i = 0,
                                          !.fpc = AfterAccounts(ids)]]
          /\ UNCHANGED <<mainVars, log, fixtureHist>>
       \/ Uncaught(w)

\* Lines 100-110: one pass of the loop over accounts.
CreateAccount(w) ==
    /\ f[w].fpc = "create_account"
    /\ \/ /\ "accounts" \in store.tables
          /\ store' = create_account(store, next_id, TestUser, accounts[f[w].i])
          /\ next_id' = next_id + 1
          /\ LET ids == Append(f[w].account_ids, next_id)
             IN  f' = [f EXCEPT ![w] =
                         IF f[w].i < Len(accounts)
                           THEN [@ EXCEPT !.account_ids = ids, !.i = f[w].i + 1]
                           ELSE [@ EXCEPT !.account_ids = ids, !.i = 0,
                                          !.fpc = AfterAccounts(ids)]]
          /\ UNCHANGED <<mainVars, log, fixtureHist>>
       \/ Uncaught(w)

\* Mutant: the positions are attached to the last account.
account_id_last(ids) == ids[Len(ids)]

\* Line 122: the account the positions are attached to.
account_id(ids) == ids[1]

\* Mutant: the positions are inserted whether or not the account holds any.
FindPositions_ignoring_existing(w) ==
    /\ f[w].fpc = "find_positions"
    /\ \/ /\ "positions" \in store.tables
          /\ f' = [f EXCEPT ![w] = [@ EXCEPT !.fpc = "add_position", !.i = 1]]
          /\ UNCHANGED <<mainVars, store, next_id, log, fixtureHist>>
       \/ Uncaught(w)

\* Lines 122-127: existing_positions = find_by_account(account_id); if ...
FindPositions(w) ==
    /\ f[w].fpc = "find_positions"
    /\ \/ /\ "positions" \in store.tables
          /\ f' = [f EXCEPT ![w] =
                     IF find_by_account(store, account_id(f[w].account_ids)) # <<>>
                       THEN [@ EXCEPT !.fpc = "returned"]
                       ELSE [@ EXCEPT !.fpc = "add_position", !.i = 1]]
          /\ UNCHANGED <<mainVars, store, next_id, log, fixtureHist>>
       \/ Uncaught(w)

\* Mutant: the positions are spread over the accounts.
AddPosition_round_robin(w) ==
    /\ f[w].fpc = "add_position"
    /\ \/ /\ "positions" \in store.tables
          /\ store' = add_position(store,
                                   f[w].account_ids[((f[w].i - 1) % Len(f[w].account_ids)) + 1],
                                   positions[f[w].i].symbol,
                                   positions[f[w].i].quantity)
          /\ f' = [f EXCEPT ![w] =
                     IF f[w].i < Len(positions)
                       THEN [@ EXCEPT !.i = f[w].i + 1]
                       ELSE [@ EXCEPT !.fpc = "returned", !.i = 0]]
          /\ UNCHANGED <<mainVars, next_id, log, fixtureHist>>
       \/ Uncaught(w)

\* Lines 128-141: one pass of the loop over positions.
AddPosition(w) ==
    /\ f[w].fpc = "add_position"
    /\ \/ /\ "positions" \in store.tables
          /\ store' = add_position(store, account_id(f[w].account_ids),
                                   positions[f[w].i].symbol,
                                   positions[f[w].i].quantity)
          /\ f' = [f EXCEPT ![w] =
                     IF f[w].i < Len(positions)
                       THEN [@ EXCEPT !.i = f[w].i + 1]
                       ELSE [@ EXCEPT !.fpc = "returned", !.i = 0]]
          /\ UNCHANGED <<mainVars, next_id, log, fixtureHist>>
       \/ Uncaught(w)

create_test_data(w) ==
    \/ FindUser(w)
    \/ CreateUser(w)
    \/ FindAccounts(w)
    \/ CreateAccount(w)
    \/ FindPositions(w)
    \/ AddPosition(w)

\* The operator runs the provisioner again, after a return or a failure.
Invoke(w) ==
    /\ pc = "harness"
    /\ f[w].fpc \in {"idle", "returned", "raised"}
    /\ invocations < MaxInvocations
    /\ Call(w)
    /\ UNCHANGED <<mainVars, store, next_id, log>>

NextFixture == Invoke("main") \/ create_test_data("main")

SpecFixture == InitFixture /\ [][NextFixture]_vars

-----------------------------------------------------------------------------
(* Two runs of create_test_data against one store *)

\* Two writers, each invoking create_test_data once, their store calls
\* interleaved; the store enforces no uniqueness of the natural key.
InitConc ==
    /\ args = [skip_drop |-> TRUE, with_test_data |-> TRUE]
    /\ pc = "harness"
    /\ store \in InitStores(1)
    /\ InitCommon

InvokeOnce(w) ==
    /\ pc = "harness"
    /\ f[w].fpc = "idle"
    /\ Call(w)
    /\ UNCHANGED <<mainVars, store, next_id, log>>

NextConc == \E w \in Writers : InvokeOnce(w) \/ create_test_data(w)

SpecConc == InitConc /\ [][NextConc]_vars

-----------------------------------------------------------------------------
(* drop_all_tables *)

\* Mutant: an exception of db.execute leaves drop_all_tables.
drop_table_propagates ==
    /\ pc = "drop_tables"
    /\ LET table == tables_to_drop[drop_i]
       IN  \/ /\ Issued("drop_table", table, "ok")
              /\ store' = DropTable(store, table)
              /\ IF drop_i < Len(tables_to_drop)
                    THEN drop_i' = drop_i + 1 /\ UNCHANGED pc
                    ELSE drop_i' = 0 /\ pc' = "drop_function"
              /\ UNCHANGED <<drop_errors, exit_code>>
           \/ /\ Issued("drop_table", table, "raised")
              /\ pc' = "crashed"
              /\ exit_code' = <<1>>
              /\ UNCHANGED <<store, drop_errors, drop_i>>
    /\ UNCHANGED <<args, next_id, result, verify_i, report, f, fresh, others,
                   fixtureHist>>

\* Lines 29-34: one pass of the loop; an exception of db.execute is caught.
drop_table ==
    /\ pc = "drop_tables"
    /\ LET table == tables_to_drop[drop_i]
       IN  \/ /\ Issued("drop_table", table, "ok")
              /\ store' = DropTable(store, table)
              /\ UNCHANGED drop_errors
           \/ /\ Issued("drop_table", table, "raised")
              /\ drop_errors' = drop_errors \cup {table}
              /\ UNCHANGED store
    /\ IF drop_i < Len(tables_to_drop)
          THEN drop_i' = drop_i + 1 /\ UNCHANGED pc
          ELSE drop_i' = 0 /\ pc' = "drop_function"
    /\ UNCHANGED <<args, exit_code, next_id, result, verify_i, report, f,
                   fresh, others, fixtureHist>>

\* Mutant: a failed drop of the function ends the run with sys.exit(1).
drop_function_fatal ==
    /\ pc = "drop_function"
    /\ \/ /\ Issued("drop_function", trigger_function, "ok")
          /\ store' = DropFunction(store)
          /\ pc' = "run_migrations"
          /\ UNCHANGED <<drop_errors, exit_code>>
       \/ /\ Issued("drop_function", trigger_function, "raised")
          /\ drop_errors' = drop_errors \cup {trigger_function}
          /\ pc' = "failed"
          /\ exit_code' = <<1>>
          /\ UNCHANGED store
    /\ UNCHANGED <<args, next_id, drop_i, result, verify_i, report, f, fresh, others,
                   fixtureHist>>

\* Lines 37-41: the trigger function, with the same handling; then return.
drop_function ==
    /\ pc = "drop_function"
    /\ \/ /\ Issued("drop_function", trigger_function, "ok")
          /\ store' = DropFunction(store)
          /\ UNCHANGED drop_errors
       \/ /\ Issued("drop_function", trigger_function, "raised")
          /\ drop_errors' = drop_errors \cup {trigger_function}
          /\ UNCHANGED store
    /\ pc' = "run_migrations"
    /\ UNCHANGED <<args, exit_code, next_id, drop_i, result, verify_i, report,
                   f, fresh, others, fixtureHist>>

drop_all_tables == drop_table \/ drop_function

-----------------------------------------------------------------------------
(* main *)

ExitStatuses == {0, 1}

Status(returncode) == IF returncode = 0 THEN "zero" ELSE "nonzero"

\* Mutant: the tables are dropped whatever --skip-drop says.
main_begin_ignores_skip_drop ==
    /\ pc = "start"
    /\ pc' = "drop_tables"
    /\ drop_i' = 1
    /\ UNCHANGED <<args, exit_code, store, next_id, drop_errors, result,
                   verify_i, report, log, f, fresh, others, fixtureHist>>

\* Lines 159-161: if not args.skip_drop: drop_all_tables(db)
main_begin ==
    /\ pc = "start"
    /\ IF ~args.skip_drop
          THEN pc' = "drop_tables" /\ drop_i' = 1
          ELSE pc' = "run_seed" /\ UNCHANGED drop_i
    /\ UNCHANGED <<args, exit_code, store, next_id, drop_errors, result,
                   verify_i, report, log, f, fresh, others, fixtureHist>>

\* Lines 166-167: subprocess.run(['uv', 'run', 'run_migrations.py'], ...)
run_migrations ==
    /\ pc = "run_migrations"
    /\ \E returncode \in ExitStatuses :
          /\ Issued("run", "run_migrations.py", Status(returncode))
          /\ result' = <<returncode>>
          /\ store' = IF returncode = 0 THEN Migrated(store) ELSE store
    /\ pc' = "check_migrations"
    /\ UNCHANGED <<args, exit_code, next_id, drop_i, drop_errors, verify_i,
                   report, f, fresh, others, fixtureHist>>

\* Mutant: the exit status of the migrations is not looked at.
check_migrations_continues ==
    /\ pc = "check_migrations"
    /\ pc' = "run_seed"
    /\ UNCHANGED <<args, exit_code, store, next_id, drop_i, drop_errors, result,
                   verify_i, report, log, f, fresh, others, fixtureHist>>

\* Lines 169-174: if result.returncode != 0: sys.exit(1)
check_migrations ==
    /\ pc = "check_migrations"
    /\ IF result[1] # 0
          THEN pc' = "failed" /\ exit_code' = <<1>>
          ELSE pc' = "run_seed" /\ UNCHANGED exit_code
    /\ UNCHANGED <<args, store, next_id, drop_i, drop_errors, result, verify_i,
                   report, log, f, fresh, others, fixtureHist>>

\* Mutant: a failed load of the seed data is tried again.
run_seed_retries ==
    /\ pc = "run_seed"
    /\ \E returncode \in ExitStatuses :
          /\ Issued("run", "seed_data.py", Status(returncode))
          /\ result' = <<returncode>>
          /\ store' = IF returncode = 0 THEN Seeded(store) ELSE store
          /\ pc' = IF returncode = 0 THEN "check_seed" ELSE "run_seed"
    /\ UNCHANGED <<args, exit_code, next_id, drop_i, drop_errors, verify_i,
                   report, f, fresh, others, fixtureHist>>

\* Lines 179-180: subprocess.run(['uv', 'run', 'seed_data.py'], ...)
run_seed ==
    /\ pc = "run_seed"
    /\ \E returncode \in ExitStatuses :
          /\ Issued("run", "seed_data.py", Status(returncode))
          /\ result' = <<returncode>>
          /\ store' = IF returncode = 0 THEN Seeded(store) ELSE store
    /\ pc' = "check_seed"
    /\ UNCHANGED <<args, exit_code, next_id, drop_i, drop_errors, verify_i,
                   report, f, fresh, others, fixtureHist>>

\* Mutant: the exit status of the seed data load is not looked at.
check_seed_continues ==
    /\ pc = "check_seed"
    /\ pc' = "test_data"
    /\ UNCHANGED <<args, exit_code, store, next_id, drop_i, drop_errors, result,
                   verify_i, report, log, f, fresh, others, fixtureHist>>

\* Lines 182-191: if result.returncode != 0: sys.exit(1)
check_seed ==
    /\ pc = "check_seed"
    /\ IF result[1] # 0
          THEN pc' = "failed" /\ exit_code' = <<1>>
          ELSE pc' = "test_data" /\ UNCHANGED exit_code
    /\ UNCHANGED <<args, store, next_id, drop_i, drop_errors, result, verify_i,
                   report, log, f, fresh, others, fixtureHist>>

\* Mutant: the test data is created whatever --with-test-data says.
test_data_always ==
    /\ pc = "test_data"
    /\ pc' = "create_test_data"
    /\ Issued("call", "create_test_data", "called")
    /\ Call("main")
    /\ UNCHANGED <<args, exit_code, store, next_id, drop_i, drop_errors,
                   result, verify_i, report, fresh, others>>

\* Lines 194-195: if args.with_test_data: create_test_data(db_models)
test_data ==
    /\ pc = "test_data"
    /\ IF args.with_test_data
          THEN /\ pc' = "create_test_data"
               /\ Issued("call", "create_test_data", "called")
               /\ Call("main")
               /\ UNCHANGED verify_i
          ELSE /\ pc' = "verify"
               /\ verify_i' = 1
               /\ UNCHANGED <<log, f, fixtureHist>>
    /\ UNCHANGED <<args, exit_code, store, next_id, drop_i, drop_errors,
                   result, report, fresh, others>>

\* create_test_data has returned to line 197.
test_data_done ==
    /\ pc = "create_test_data"
    /\ f["main"].fpc = "returned"
    /\ pc' = "verify"
    /\ verify_i' = 1
    /\ UNCHANGED <<args, exit_code, store, next_id, drop_i, drop_errors,
                   result, report, log, f, fresh, others, fixtureHist>>

\* Line 204: count = result[0]['count'] if result else 0
count(rows) == IF rows # <<>> THEN rows[1].count ELSE 0

\* Lines 202-208: one pass of the loop over tables; db.query answers with
\* one row, with no row, or raises, and nothing catches that.
verify ==
    /\ pc = "verify"
    /\ LET table == tables[verify_i]
       IN  \/ /\ table \in store.tables
              /\ \E rows \in {<<[count |-> CountRows(store, table)]>>, <<>>} :
                    /\ Issued("count", table, IF rows # <<>> THEN "ok" ELSE "empty")
                    /\ report' = Append(report, [table |-> table,
                                                  count |-> count(rows)])
              /\ IF verify_i < Len(tables)
                    THEN verify_i' = verify_i + 1 /\ UNCHANGED <<pc, exit_code>>
                    ELSE verify_i' = 0 /\ pc' = "done" /\ exit_code' = <<0>>
           \/ /\ Issued("count", table, "raised")
              /\ pc' = "crashed"
              /\ exit_code' = <<1>>
              /\ UNCHANGED <<verify_i, report>>
    /\ UNCHANGED <<args, store, next_id, drop_i, drop_errors, result, f, fresh, others,
                   fixtureHist>>

main ==
    \/ main_begin
    \/ drop_all_tables
    \/ run_migrations
    \/ check_migrations
    \/ run_seed
    \/ check_seed
    \/ test_data
    \/ create_test_data("main")
    \/ test_data_done
    \/ verify

Next == main

Spec == Init /\ [][Next]_vars

-----------------------------------------------------------------------------
(* run_local.py: the local process supervisor *)

BackendAttempts == 30

FrontendAttempts == 30

FrontendWarmup == 5

Children == {"backend", "frontend"}

\* Line 15 and lines 197-204: nothing launched, nothing tracked.
InitSupervisor ==
    /\ ResetNotRunning
    /\ des = NotRunning
    /\ sup = [pc |-> "check", processes |-> <<>>,
              child |-> [c \in Children |-> "none"],
              n |-> 0, i |-> 0, exit_code |-> <<>>]

\* Lines 202-204: check_requirements and check_env_files leave with
\* sys.exit(1) when a tool or an environment file is missing.
sup_check ==
    /\ sup.pc = "check"
    /\ \/ sup' = [sup EXCEPT !.pc = "popen_backend"]
       \/ sup' = [sup EXCEPT !.pc = "exited", !.exit_code = <<1>>]
    /\ UNCHANGED <<resetVars, des>>

\* Lines 106-113: proc = subprocess.Popen(...): the child runs.
sup_popen(c) ==
    /\ sup.pc = "popen_" \o c
    /\ sup' = [sup EXCEPT !.child[c] = "running", !.pc = "append_" \o c]
    /\ UNCHANGED <<resetVars, des>>

\* Line 114: processes.append(proc)
sup_append(c) ==
    /\ sup.pc = "append_" \o c
    /\ sup' = [sup EXCEPT !.processes = Append(@, c), !.pc = "wait_" \o c,
                           !.n = 0]
    /\ UNCHANGED <<resetVars, des>>

\* Lines 17-19: cleanup is entered.
EnterCleanup == [sup EXCEPT !.pc = "cleanup", !.i = 1]

\* Lines 118-130: one health check of the backend, answered by whatever
\* listens on port 8000; after the last one, cleanup().
start_backend_wait ==
    /\ sup.pc = "wait_backend"
    /\ IF sup.n < BackendAttempts
          THEN \/ sup' = [sup EXCEPT !.pc = "popen_frontend", !.n = 0]
               \/ sup' = [sup EXCEPT !.n = @ + 1]
          ELSE sup' = EnterCleanup
    /\ UNCHANGED <<resetVars, des>>

\* Lines 159-176: one pass of the frontend loop, which tries to connect
\* once i > 5; after the last one, cleanup().
start_frontend_wait ==
    /\ sup.pc = "wait_frontend"
    /\ IF sup.n < FrontendAttempts
          THEN \/ /\ sup.n > FrontendWarmup
                  /\ sup' = [sup EXCEPT !.pc = "monitor", !.n = 0]
               \/ sup' = [sup EXCEPT !.n = @ + 1]
          ELSE sup' = EnterCleanup
    /\ UNCHANGED <<resetVars, des>>

start_backend == sup_popen("backend") \/ sup_append("backend") \/ start_backend_wait

start_frontend ==
    sup_popen("frontend") \/ sup_append("frontend") \/ start_frontend_wait

\* Lines 29-30: SIGINT or SIGTERM arrives; the handler runs between two
\* instructions of the main program, wherever that is.
sup_signal ==
    /\ sup.pc \notin {"not_running", "cleanup", "exited"}
    /\ sup' = EnterCleanup
    /\ UNCHANGED <<resetVars, des>>

\* Lines 29-30 and 119-127: a signal during the health check of line 121:
\* the handler runs the whole of cleanup, and the bare except of line 126
\* catches the SystemExit of its sys.exit(0), so the loop goes on.
sup_signal_swallowed ==
    /\ sup.pc = "wait_backend"
    /\ sup.n < BackendAttempts
    /\ \E how \in [Children -> {"terminated", "killed"}] :
          sup' = [sup EXCEPT
                    !.child = [c \in Children |->
                                 IF c \in Range(sup.processes)
                                       /\ sup.child[c] = "running"
                                   THEN how[c] ELSE sup.child[c]],
                    !.n = @ + 1]
    /\ UNCHANGED <<resetVars, des>>

\* Lines 20-26: one pass of the loop: terminate(), then wait(timeout=5), and
\* kill() when that raises; after the loop, sys.exit(0).
cleanup ==
    /\ sup.pc = "cleanup"
    /\ IF sup.i <= Len(sup.processes)
          THEN \E how \in {"terminated", "killed"} :
                  sup' = [sup EXCEPT !.child[sup.processes[sup.i]] = how,
                                     !.i = @ + 1]
          ELSE sup' = [sup EXCEPT !.pc = "exited", !.exit_code = <<0>>]
    /\ UNCHANGED <<resetVars, des>>

\* A second signal during cleanup: the handler runs the whole of cleanup
\* again. Its sys.exit(0) ends the process, unless it is raised inside the
\* try of line 21, where the bare except of line 24 catches it and the
\* interrupted loop goes on.
cleanup_again ==
    /\ sup.pc = "cleanup"
    /\ \E how \in [Children -> {"terminated", "killed"}] :
          LET stopped == [c \in Children |->
                            IF c \in Range(sup.processes)
                                  /\ sup.child[c] = "running"
                              THEN how[c] ELSE sup.child[c]]
          IN  \/ sup' = [sup EXCEPT !.child = stopped, !.pc = "exited",
                                    !.exit_code = <<0>>]
              \/ /\ sup.i <= Len(sup.processes)
                 /\ sup' = [sup EXCEPT !.child = stopped]
    /\ UNCHANGED <<resetVars, des>>

\* Lines 192-196: while True: time.sleep(1); only a signal ends it.
monitor_processes ==
    /\ sup.pc = "monitor"
    /\ UNCHANGED vars

NextSupervisor ==
    \/ sup_check
    \/ start_backend
    \/ start_frontend
    \/ sup_signal
    \/ sup_signal_swallowed
    \/ cleanup
    \/ cleanup_again
    \/ monitor_processes

SpecSupervisor == InitSupervisor /\ [][NextSupervisor]_vars

-----------------------------------------------------------------------------
(* destroy.py: the infrastructure destroy script *)

MaxAnswerLen == 4

\* The characters an answer is typed with.
Alphabet == {"y", "Y", "e", "E", "s", "S", "n", " "}

Answers == UNION {[1..n -> Alphabet] : n \in 0..MaxAnswerLen}

\* str.lower(), character by character.
LowerChar(c) ==
    CASE c = "Y" -> "y"
      [] c = "E" -> "e"
      [] c = "S" -> "s"
      [] OTHER -> c

lower(response) == [k \in DOMAIN response |-> LowerChar(response[k])]

confirm_destruction_first_letter(response) ==
    /\ Len(response) >= 1
    /\ LowerChar(response[1]) = "y"

\* Line 45: return response.lower() == 'yes'
confirm_destruction(response) == lower(response) = <<"y", "e", "s">>

\* Lines 162-166
bucket_patterns == <<"alex-frontend", "alex-lambda-packages", "alex-vector">>

\* Lines 130-134
artifacts == <<"api_lambda.zip", "out", ".next">>

InitDestroy ==
    /\ ResetNotRunning
    /\ sup = NotRunning
    /\ des = [pc |-> "confirm", answered |-> FALSE, response |-> <<>>,
              calls |-> <<>>, effects |-> <<>>, i |-> 0, exit_code |-> <<>>]

\* An exception no handler catches: traceback, exit status 1.
DesRaise == [des EXCEPT !.pc = "crashed", !.exit_code = <<1>>]

\* Lines 193-195: the answer is read and compared; sys.exit(0) unless it is
\* accepted. input() raises when standard input is closed or interrupted.
destroy_begin ==
    /\ des.pc = "confirm"
    /\ \/ \E response \in Answers :
             des' = IF confirm_destruction(response)
                      THEN [des EXCEPT !.answered = TRUE,
                                       !.response = response,
                                       !.pc = "empty_all_buckets"]
                      ELSE [des EXCEPT !.answered = TRUE,
                                       !.response = response,
                                       !.pc = "exited",
                                       !.exit_code = <<0>>]
       \/ des' = DesRaise
    /\ UNCHANGED <<resetVars, sup>>

\* Lines 149-160: the account id is looked up; without one the function
\* returns. subprocess.run raises when the aws executable is missing.
empty_all_buckets_begin ==
    /\ des.pc = "empty_all_buckets"
    /\ \/ des' = [des EXCEPT !.calls = Append(@, "empty_all_buckets"),
                              !.pc = "bucket", !.i = 1]
       \/ des' = [des EXCEPT !.calls = Append(@, "empty_all_buckets"),
                              !.pc = "destroy_terraform"]
       \/ des' = [DesRaise EXCEPT !.calls = Append(@, "empty_all_buckets")]
    /\ UNCHANGED <<resetVars, sup>>

\* Lines 168-185: one pass of the loop: a bucket that lists something is
\* emptied with aws s3 rm --recursive.
empty_bucket ==
    /\ des.pc = "bucket"
    /\ IF des.i <= Len(bucket_patterns)
          THEN \/ des' = [des EXCEPT
                            !.effects = Append(@, <<"empty", bucket_patterns[des.i]>>),
                            !.i = @ + 1]
               \/ des' = [des EXCEPT !.i = @ + 1]
          ELSE des' = [des EXCEPT !.pc = "destroy_terraform"]
    /\ UNCHANGED <<resetVars, sup>>

empty_all_buckets == empty_all_buckets_begin \/ empty_bucket

\* Lines 96-123: no directory or no .terraform: nothing is run; otherwise
\* terraform destroy runs, and main ignores whether it succeeded.
\* subprocess.run raises when the terraform executable is missing.
destroy_terraform ==
    /\ des.pc = "destroy_terraform"
    /\ \/ des' = [des EXCEPT !.calls = Append(@, "destroy_terraform"),
                              !.pc = "clean_local_artifacts"]
       \/ des' = [des EXCEPT !.calls = Append(@, "destroy_terraform"),
                              !.effects = Append(@, <<"terraform", "destroy">>),
                              !.pc = "clean_local_artifacts"]
       \/ des' = [DesRaise EXCEPT !.calls = Append(@, "destroy_terraform")]
    /\ UNCHANGED <<resetVars, sup>>

\* Lines 126-134
clean_local_artifacts_begin ==
    /\ des.pc = "clean_local_artifacts"
    /\ des' = [des EXCEPT !.calls = Append(@, "clean_local_artifacts"),
                           !.pc = "artifact", !.i = 1]
    /\ UNCHANGED <<resetVars, sup>>

\* Lines 136-146 and 206-210: one pass of the loop: an artifact that exists
\* is deleted, or its deletion raises; after the loop main prints and
\* returns.
clean_artifact ==
    /\ des.pc = "artifact"
    /\ IF des.i <= Len(artifacts)
          THEN \/ des' = [des EXCEPT
                            !.effects = Append(@, <<"delete", artifacts[des.i]>>),
                            !.i = @ + 1]
               \/ des' = [des EXCEPT !.i = @ + 1]
               \/ des' = DesRaise
          ELSE des' = [des EXCEPT !.pc = "done", !.exit_code = <<0>>]
    /\ UNCHANGED <<resetVars, sup>>

clean_local_artifacts == clean_local_artifacts_begin \/ clean_artifact

NextDestroy ==
    \/ destroy_begin
    \/ empty_all_buckets
    \/ destroy_terraform
    \/ clean_local_artifacts

SpecDestroy == InitDestroy /\ [][NextDestroy]_vars

-----------------------------------------------------------------------------
(* Vocabulary of the properties *)

\* The orchestrator's state: the last step that has returned.  Failed is the
\* exit through sys.exit(1); an exception nothing catches is Crashed.
State ==
    CASE pc \in {"start", "harness", "drop_tables", "drop_function"} -> "NotStarted"
      [] pc = "run_migrations" -> "Dropped"
      [] pc = "check_migrations" -> "Migrated"
      [] pc = "run_seed" -> IF args.skip_drop THEN "NotStarted" ELSE "Migrated"
      [] pc \in {"check_seed", "test_data"} -> "Seeded"
      [] pc = "create_test_data" ->
            IF f["main"].fpc = "returned" THEN "FixtureLoaded" ELSE "Seeded"
      [] pc = "verify" -> IF args.with_test_data THEN "FixtureLoaded" ELSE "Seeded"
      [] pc = "done" -> "Verified"
      [] pc = "failed" -> "Failed"
      [] pc = "crashed" -> "Crashed"

Logged(op, target, status) ==
    \E k \in 1..Len(log) :
        log[k] = [op |-> op, target |-> target, status |-> status]

LoggedOp(op) == \E k \in 1..Len(log) : log[k].op = op

LoggedTarget(target) == \E k \in 1..Len(log) : log[k].target = target

MigrationsFailed == Logged("run", "run_migrations.py", "nonzero")

SeedFailed == Logged("run", "seed_data.py", "nonzero")

TargetsOf(entries) == [k \in 1..Len(entries) |-> entries[k].target]

DropsIssued == TargetsOf(SelectSeq(log, LAMBDA e : e.op = "drop_table"))

TeardownIssued ==
    TargetsOf(SelectSeq(log, LAMBDA e : e.op \in {"drop_table", "drop_function"}))

\* The place of a logged operation in the order teardown, migrations, seed
\* data, test data, verification.
StepOf(e) ==
    CASE e.op \in {"drop_table", "drop_function"} -> 1
      [] e.op = "run" /\ e.target = "run_migrations.py" -> 2
      [] e.op = "run" /\ e.target = "seed_data.py" -> 3
      [] e.op = "call" -> 4
      [] e.op = "count" -> 5

-----------------------------------------------------------------------------
(* Properties *)

\* C1: when create_test_data is invoked again after an invocation that
\* returned, by a single writer, the numbers of identity rows with key
\* test_user_001, of accounts owned by it and of positions under those
\* accounts stay what they were when the second invocation began, at every
\* point of it and at its return: the second invocation inserts nothing.
C1_Idempotent ==
    prev_returned =>
        /\ Len(UsersOf(store)) = Len(snap.users)
        /\ Len(AccountsOf(store)) = Len(snap.accounts)
        /\ Len(PositionsOf(store)) = Len(snap.positions)
        /\ Snapshot(store) = snap

C1_Witness ==
    /\ pc = "harness"
    /\ prev_returned
    /\ f["main"].fpc = "returned"
    /\ Len(snap.users) = 1
    /\ Len(snap.accounts) = 3
    /\ Len(snap.positions) = 5

\* C2: a run with --with-test-data that starts from an environment without
\* rows and completes ends with exactly one identity row, with key
\* test_user_001, exactly three accounts, all owned by it, and exactly five
\* positions, all under the first of those accounts, whose (symbol, quantity)
\* pairs are (SPY,100), (QQQ,50), (BND,200), (VEA,150), (GLD,25).
C2_FixtureShape ==
    (pc = "done" /\ fresh /\ args.with_test_data) =>
        /\ Len(store.rows.users) = 1
        /\ store.rows.users[1].clerk_user_id = "test_user_001"
        /\ Len(store.rows.accounts) = 3
        /\ \A k \in 1..3 : store.rows.accounts[k].clerk_user_id = "test_user_001"
        /\ Cardinality({store.rows.accounts[k].id : k \in 1..3}) = 3
        /\ Len(store.rows.positions) = 5
        /\ \A k \in 1..5 :
              store.rows.positions[k].account_id = store.rows.accounts[1].id
        /\ {<<store.rows.positions[k].symbol, store.rows.positions[k].quantity>> :
                k \in 1..5}
             = {<<"SPY", 100>>, <<"QQQ", 50>>, <<"BND", 200>>, <<"VEA", 150>>,
                <<"GLD", 25>>}

C2_Witness ==
    /\ pc = "done"
    /\ fresh
    /\ args.with_test_data
    /\ ~args.skip_drop
    /\ exit_code = <<0>>

\* C3: once run_migrations.py has returned a non-zero exit status, the only
\* step main takes is the exit with code 1, and seed_data.py,
\* create_test_data and the verification are never started in that run.
C3_MigrationFailFast ==
    /\ [](MigrationsFailed =>
            /\ pc \in {"check_migrations", "failed"}
            /\ pc = "failed" => exit_code = <<1>>
            /\ ~LoggedTarget("seed_data.py")
            /\ ~LoggedOp("call")
            /\ ~LoggedOp("count")
            /\ f["main"].fpc = "idle")
    /\ [][(MigrationsFailed /\ pc = "check_migrations") =>
            (pc' = "failed" /\ exit_code' = <<1>>)]_vars

C3_Witness ==
    /\ MigrationsFailed
    /\ pc = "failed"
    /\ exit_code = <<1>>

\* C4: once seed_data.py has returned a non-zero exit status, the only step
\* main takes is the exit with code 1, and neither create_test_data nor the
\* verification is started, with or without --with-test-data.
C4_SeedFailFast ==
    /\ [](SeedFailed =>
            /\ pc \in {"check_seed", "failed"}
            /\ pc = "failed" => exit_code = <<1>>
            /\ ~LoggedOp("call")
            /\ ~LoggedOp("count")
            /\ f["main"].fpc = "idle")
    /\ [][(SeedFailed /\ pc = "check_seed") =>
            (pc' = "failed" /\ exit_code' = <<1>>)]_vars

C4_Witness ==
    /\ SeedFailed
    /\ pc = "failed"
    /\ exit_code = <<1>>
    /\ args.with_test_data

\* C5: the operations of a run are issued in the order teardown, migrations,
\* seed data, test data, verification, none of them twice; the migrations
\* start only when all six drops have been issued, the verification only
\* when create_test_data has returned, and seed_data.py only after
\* run_migrations.py has returned zero or under --skip-drop.
C5_LinearOrder ==
    /\ \A j, k \in 1..Len(log) :
          j < k => /\ StepOf(log[j]) <= StepOf(log[k])
                   /\ <<log[j].op, log[j].target>> # <<log[k].op, log[k].target>>
    /\ LoggedTarget("run_migrations.py") => Len(TeardownIssued) = 6
    /\ (LoggedOp("count") /\ LoggedOp("call")) => f["main"].fpc = "returned"
    /\ LoggedOp("call") => Logged("run", "seed_data.py", "zero")
    /\ LoggedOp("count") => Logged("run", "seed_data.py", "zero")
    /\ LoggedTarget("seed_data.py") =>
          \/ args.skip_drop
          \/ Logged("run", "run_migrations.py", "zero")

C5_Witness ==
    /\ pc = "done"
    /\ ~args.skip_drop
    /\ args.with_test_data
    /\ Len(log) = 14

\* C6: under --skip-drop no drop statement is issued and run_migrations.py
\* is not run at any point; the first operation of the run is seed_data.py.
C6_SkipDrop ==
    args.skip_drop =>
        /\ ~LoggedOp("drop_table")
        /\ ~LoggedOp("drop_function")
        /\ ~LoggedTarget("run_migrations.py")
        /\ pc \notin {"drop_tables", "drop_function", "run_migrations",
                       "check_migrations"}
        /\ log # <<>> => log[1] \in {[op |-> "run", target |-> "seed_data.py",
                                       status |-> st] : st \in {"zero", "nonzero"}}

C6_Witness ==
    /\ args.skip_drop
    /\ pc = "done"
    /\ store.rows.accounts # <<>>

\* C7: the table drops issued so far are always an initial part of
\* positions, accounts, jobs, instruments, users, whichever tables exist and
\* whichever drops have failed.
C7_DropOrder ==
    \E n \in 0..5 :
        DropsIssued =
            SubSeq(<<"positions", "accounts", "jobs", "instruments", "users">>, 1, n)

C7_Witness ==
    /\ Len(DropsIssued) = 5
    /\ {"positions", "instruments"} \subseteq drop_errors
    /\ "users" \notin store.tables

\* C8: whichever drops raise, drop_all_tables returns: once main is past the
\* teardown, the five table drops and then the function drop have all been
\* issued, and the next operation is run_migrations.py.
C8_TeardownNeverRaises ==
    (~args.skip_drop /\ pc \notin {"start", "drop_tables", "drop_function"}) =>
        /\ Len(log) >= 6
        /\ TargetsOf(SubSeq(log, 1, 6)) =
              <<"positions", "accounts", "jobs", "instruments", "users",
                "update_updated_at_column">>
        /\ pc # "run_migrations" =>
              /\ Len(log) >= 7
              /\ log[7].target = "run_migrations.py"

C8_Witness ==
    /\ drop_errors = {"positions", "accounts", "jobs", "instruments", "users",
                       "update_updated_at_column"}
    /\ LoggedTarget("run_migrations.py")

\* C9: when exactly one of the three predefined accounts exists for
\* test_user_001 as create_test_data is invoked, the invocation creates no
\* account: the identity owns that one account at every point of the
\* invocation and after it, so also at the start of every later invocation.
C9_PartialSetStays ==
    (/\ Len(snap.accounts) = 1
     /\ snap.accounts[1].account_name \in {"401(k)", "Roth IRA", "Taxable Brokerage"})
        => AccountsOf(store) = snap.accounts

C9_Witness ==
    /\ pc = "harness"
    /\ invocations = 2
    /\ f["main"].fpc = "returned"
    /\ Len(snap.accounts) = 1
    /\ Len(AccountsOf(store)) = 1
    /\ Len(PositionsOf(store)) >= 5

\* C10: the Failed state is entered only from the state Migrated or the
\* state Seeded, and only when the process that has just returned gave a
\* non-zero exit status.
C10_FailedOnlyFromExternalExit ==
    [][(State' = "Failed" /\ State # "Failed") =>
          /\ State \in {"Migrated", "Seeded"}
          /\ result # <<>>
          /\ result[1] # 0
          /\ (State = "Migrated" => MigrationsFailed)
          /\ (State = "Seeded" => SeedFailed)]_vars

C10_Witness ==
    /\ State = "Failed"
    /\ SeedFailed
    /\ Logged("run", "run_migrations.py", "zero")

\* C11: the verification cannot fail the run: once a count query has been
\* issued the process does not end with exit code 1, whether or not a query
\* errors, and a query that answers no row is reported as 0.
C11_VerificationCannotFail ==
    /\ LoggedOp("count") => (pc \in {"verify", "done"} /\ exit_code # <<1>>)
    /\ \A k \in 1..Len(log) :
          (log[k].op = "count" /\ log[k].status = "empty") =>
              \E j \in 1..Len(report) :
                  report[j] = [table |-> log[k].target, count |-> 0]

\* Referential integrity of a store.
RI(s) ==
    /\ \A a \in Range(s.rows.accounts) :
          \E u \in Range(s.rows.users) : u.clerk_user_id = a.clerk_user_id
    /\ \A p \in Range(s.rows.positions) :
          \E a \in Range(s.rows.accounts) : a.id = p.account_id

\* C12: no step of create_test_data by a single writer takes a store that
\* satisfies referential integrity to one that does not; the identity row
\* exists whenever an account is about to be inserted, and the account row
\* exists whenever a position is about to be inserted under it.
C12_ReferentialIntegrity ==
    /\ [][RI(store) => RI(store')]_vars
    /\ [](f["main"].fpc = "create_account" => UsersOf(store) # <<>>)
    /\ [](f["main"].fpc = "add_position" =>
            \E a \in Range(store.rows.accounts) : a.id = f["main"].account_ids[1])

C12_Witness ==
    /\ pc = "harness"
    /\ invocations = 1
    /\ f["main"].fpc = "returned"
    /\ snap.users = <<>>
    /\ snap.accounts = <<>>
    /\ RI(store)
    /\ Len(PositionsOf(store)) = 5

\* C13: without --with-test-data create_test_data is never called: main goes
\* from the seed data check straight on to the verification, and no step of
\* the run adds an identity, account or position row.
C13_NoFixtureWithoutFlag ==
    /\ [](~args.with_test_data =>
            /\ f["main"] = NoLocals
            /\ invocations = 0
            /\ ~LoggedOp("call")
            /\ pc # "create_test_data")
    /\ [][~args.with_test_data =>
            /\ \A t \in {"users", "accounts", "positions"} :
                  store'.rows[t] \in {store.rows[t], <<>>}
            /\ pc = "test_data" => pc' = "verify"]_vars

C13_Witness ==
    /\ ~args.with_test_data
    /\ args.skip_drop
    /\ pc = "done"
    /\ store.rows.users # <<>>
    /\ store.rows.accounts # <<>>

IsPrefix(a, b) == Len(a) <= Len(b) /\ SubSeq(b, 1, Len(a)) = a

\* The invocation began with the identity, an account of it and a position
\* under its first account all present.
SkipAtStart ==
    /\ snap.users # <<>>
    /\ snap.accounts # <<>>
    /\ \E p \in Range(snap.positions) : p.account_id = snap.accounts[1].id

\* C14: a step of create_test_data only appends rows: the rows of every
\* table before the step are an initial part of its rows after it, and no
\* table or function comes or goes; in an invocation that began with the
\* identity, its accounts and a position of its first account present, no
\* step changes the store at all.
C14_OnlyAdds ==
    /\ [][/\ \A t \in AllTables : IsPrefix(store.rows[t], store'.rows[t])
           /\ store'.tables = store.tables
           /\ store'.fn = store.fn]_vars
    /\ [][(SkipAtStart /\ snap' = snap) => store' = store]_vars

C14_Witness ==
    /\ pc = "harness"
    /\ SkipAtStart
    /\ invocations = 1
    /\ f["main"].fpc = "returned"

\* C15: every step that inserts a position inserts one row, the next pair of
\* the literal list, under the first identifier of account_ids, which is the
\* first account of the identity; that account held no position before the
\* loop began, so an account that holds one gets none, and the other
\* accounts never get any.
C15_PositionsOnFirstAccount ==
    [][store'.rows.positions # store.rows.positions =>
          /\ AccountsOf(store) # <<>>
          /\ f["main"].fpc = "add_position"
          /\ f["main"].account_ids[1] = AccountsOf(store)[1].id
          /\ Len(find_by_account(store, AccountsOf(store)[1].id)) = f["main"].i - 1
          /\ store'.rows.positions =
                Append(store.rows.positions,
                       [account_id |-> AccountsOf(store)[1].id,
                        symbol |-> positions[f["main"].i].symbol,
                        quantity |-> positions[f["main"].i].quantity])]_vars

C15_Witness ==
    /\ pc = "harness"
    /\ f["main"].fpc = "returned"
    /\ Len(snap.accounts) = 2
    /\ snap.positions # <<>>
    /\ Len(PositionsOf(store)) = Len(snap.positions) + 5

InsertedAccounts == Len(AccountsOf(store)) - Len(snap.accounts)

InsertedPositions == Len(PositionsOf(store)) - Len(snap.positions)

\* C16 as stated: an invocation that has ended, by a return or by an
\* exception, has inserted no or exactly three accounts and no or exactly
\* five positions.
C16_AnyInvocationWholeBatches ==
    f["main"].fpc \in {"returned", "raised"} =>
        /\ InsertedAccounts \in {0, 3}
        /\ InsertedPositions \in {0, 5}

\* C16 amended: an invocation that has returned has inserted no or exactly
\* three accounts and no or exactly five positions; one that an exception
\* ended has inserted at most three accounts and at most five positions.
C16_ReturnedWholeBatches ==
    /\ f["main"].fpc = "returned" =>
          /\ InsertedAccounts \in {0, 3}
          /\ InsertedPositions \in {0, 5}
    /\ f["main"].fpc = "raised" =>
          /\ InsertedAccounts \in 0..3
          /\ InsertedPositions \in 0..5

C16_Witness ==
    /\ pc = "harness"
    /\ f["main"].fpc = "returned"
    /\ InsertedAccounts = 3
    /\ InsertedPositions = 5

\* C18: a run that has ended has ended in the state Verified with exit code
\* 0, or in the state Failed with exit code 1 after run_migrations.py or
\* seed_data.py returned a non-zero exit status.
C18_TwoWaysToEnd ==
    exit_code # <<>> =>
        \/ State = "Verified" /\ exit_code = <<0>>
        \/ /\ State = "Failed"
           /\ exit_code = <<1>>
           /\ MigrationsFailed \/ SeedFailed

\* C17: with two concurrent writers and no uniqueness constraint a second
\* identity row with key test_user_001, or more than three accounts for it,
\* comes about exactly by the race: each writer has looked the rows up,
\* found none, and gone on to insert.  The witness is the interleaving that
\* reaches two identities and six accounts.
C17_DuplicatesOnlyByRace ==
    /\ Len(UsersOf(store)) <= 2
    /\ Len(UsersOf(store)) = 2 =>
          \A w \in Writers :
              /\ f[w].existing = <<>>
              /\ f[w].fpc \notin {"idle", "find_user", "create_user"}
    /\ Len(AccountsOf(store)) <= 6
    /\ Len(AccountsOf(store)) > 3 =>
          \A w \in Writers :
              /\ f[w].user_accounts = <<>>
              /\ f[w].fpc \notin {"idle", "find_user", "create_user",
                                   "find_accounts"}

C17_Witness ==
    /\ Len(UsersOf(store)) = 2
    /\ Len(AccountsOf(store)) = 6
    /\ \A w \in Writers : f[w].fpc = "returned"

\* C19: whenever cleanup runs, every child that has been launched is in the
\* tracked list, and when the supervisor has exited through cleanup no
\* launched child is still running.
C19_NoChildLeftRunning ==
    /\ sup.pc = "cleanup" =>
          \A c \in Children : sup.child[c] # "none" => c \in Range(sup.processes)
    /\ (sup.pc = "exited" /\ sup.exit_code = <<0>>) =>
          \A c \in Children : sup.child[c] # "running"

\* The answers that are 'yes' up to the case of each letter.
YesInAnyCase ==
    {<<a, b, c>> : a \in {"y", "Y"}, b \in {"e", "E"}, c \in {"s", "S"}}

\* The order of the destructive steps in main.
DestroyOrder == <<"empty_all_buckets", "destroy_terraform", "clean_local_artifacts">>

\* The step an effect belongs to.
EffectStep(e) ==
    CASE e[1] = "empty" -> 1
      [] e[1] = "terraform" -> 2
      [] e[1] = "delete" -> 3

\* C20: in destroy.py no destructive step is called and nothing is changed
\* unless the answer is 'yes' in some case of its letters; any other answer
\* ends the script with exit code 0, nothing called and nothing changed; an
\* accepted answer goes on to the steps, which are called, and take effect,
\* in the order empty buckets, terraform destroy, clean local artifacts, all
\* three in a run that reaches its end.
C20_DestroyOnlyOnYes ==
    /\ [](/\ (des.calls # <<>> \/ des.effects # <<>>) =>
                (des.answered /\ des.response \in YesInAnyCase)
          /\ des.pc = "exited" =>
                /\ des.answered
                /\ des.response \notin YesInAnyCase
                /\ des.exit_code = <<0>>
                /\ des.calls = <<>>
                /\ des.effects = <<>>
          /\ (des.answered /\ des.response \notin YesInAnyCase) =>
                des.pc = "exited"
          /\ IsPrefix(des.calls, DestroyOrder)
          /\ \A j, k \in DOMAIN des.effects :
                j < k => EffectStep(des.effects[j]) <= EffectStep(des.effects[k])
          /\ \A k \in DOMAIN des.effects :
                EffectStep(des.effects[k]) <= Len(des.calls)
          /\ des.pc = "done" =>
                des.calls = DestroyOrder /\ des.exit_code = <<0>>)
    /\ [][(~des.answered /\ des'.answered /\ des'.response \in YesInAnyCase)
             => des'.pc = "empty_all_buckets"]_vars

\* A run answered "YeS" that has emptied the three buckets, run terraform
\* destroy and deleted the three artifacts.
C20_Witness ==
    /\ des.pc = "done"
    /\ des.response = <<"Y", "e", "S">>
    /\ des.calls = DestroyOrder
    /\ Len(des.effects) = Len(bucket_patterns) + 1 + Len(artifacts)

====
